---- MODULE Spec2Model ----
(***************************************************************************)
(* Model of the ModelSelector component of                                 *)
(* frontend/src/components/file-renderers/markdown-renderer.tsx:           *)
(* the merged model catalog, the custom-model add/edit/delete handlers,    *)
(* the dropdown with its keyboard navigation, and the React passive        *)
(* effects and timers that the component schedules.                        *)
(*                                                                         *)
(* Text is a sequence of one-character strings, so that trim, toLowerCase, *)
(* includes and localeCompare are computed and not assumed.                *)
(***************************************************************************)
EXTENDS Integers, Sequences, FiniteSets, TLC

(***************************************************************************)
(* Bounds of the model.                                                    *)
(***************************************************************************)
\* longest custom catalog that an add may still extend
MaxCustom == 2
\* most reopen timers (setTimeout(..., 10)) pending when the trigger is used
MaxReopenTimers == 1
\* pieces of a text handed to processUnicodeContent
MaxPieces == 5
\* characters after the first "#" of an image source
MaxFragment == 5

(***************************************************************************)
(* Text: String.prototype.trim / toLowerCase / includes / startsWith /     *)
(* localeCompare on sequences of characters.                               *)
(***************************************************************************)
Upper == <<"A", "B", "C", "Z">>
Lower == <<"a", "b", "c", "z">>

LowerChar(c) ==
  IF \E i \in 1..Len(Upper) : Upper[i] = c
    THEN Lower[CHOOSE i \in 1..Len(Upper) : Upper[i] = c]
    ELSE c

UpperChar(c) ==
  IF \E i \in 1..Len(Lower) : Lower[i] = c
    THEN Upper[CHOOSE i \in 1..Len(Lower) : Lower[i] = c]
    ELSE c

toLowerCase(s) == [i \in 1..Len(s) |-> LowerChar(s[i])]

RECURSIVE trimStart(_)
trimStart(s) ==
  IF s # <<>> /\ Head(s) = " " THEN trimStart(Tail(s)) ELSE s

RECURSIVE trimEnd(_)
trimEnd(s) ==
  IF s # <<>> /\ s[Len(s)] = " " THEN trimEnd(SubSeq(s, 1, Len(s) - 1)) ELSE s

trim(s) == trimEnd(trimStart(s))

startsWith(s, p) == Len(p) <= Len(s) /\ SubSeq(s, 1, Len(p)) = p

includes(s, q) ==
  \E i \in 1..(Len(s) - Len(q) + 1) : SubSeq(s, i, i + Len(q) - 1) = q

\* place of a letter in the alphabet, whatever its case; 0 for other characters
LetterRank(c) ==
  IF \E i \in 1..Len(Lower) : Lower[i] = LowerChar(c)
    THEN CHOOSE i \in 1..Len(Lower) : Lower[i] = LowerChar(c)
    ELSE 0

\* lower case sorts before upper case of the same letter
CaseRank(c) == IF \E i \in 1..Len(Upper) : Upper[i] = c THEN 1 ELSE 0

RECURSIVE CompareBy(_, _, _)
CompareBy(s, t, level) ==
  LET rank(c) == IF level = 1 THEN LetterRank(c) ELSE CaseRank(c)
  IN IF s = <<>> /\ t = <<>> THEN 0
     ELSE IF s = <<>> THEN -1
     ELSE IF t = <<>> THEN 1
     ELSE IF rank(Head(s)) < rank(Head(t)) THEN -1
     ELSE IF rank(Head(s)) > rank(Head(t)) THEN 1
     ELSE CompareBy(Tail(s), Tail(t), level)

\* a.label.localeCompare(b.label): the letters decide, then their case;
\* 0 only for equal texts over this alphabet
localeCompare(s, t) ==
  IF CompareBy(s, t, 1) # 0 THEN CompareBy(s, t, 1) ELSE CompareBy(s, t, 2)

(***************************************************************************)
(* The collaborators imported from ./_use-model-selection and the props    *)
(* of the component.                                                       *)
(***************************************************************************)
IdA == <<"a">>
IdB == <<"b">>
IdC == <<"c">>

DEFAULT_FREE_MODEL_ID == IdA
DEFAULT_PREMIUM_MODEL_ID == IdB

\* MODELS[id]?.recommended
Recommended(id) == id = IdB

\* formatModelName(id): the fallback label, the id with a capital first letter
formatModelName(id) ==
  IF id = <<>> THEN <<>> ELSE <<UpperChar(Head(id))>> \o Tail(id)

OptA == [id |-> IdA, label |-> <<"A", "a">>, requiresSubscription |-> FALSE, top |-> FALSE]
OptB == [id |-> IdB, label |-> <<"B", "b">>, requiresSubscription |-> TRUE, top |-> TRUE]

\* the built-in lists the parent may pass as modelOptions
BuiltinLists == {<<OptA, OptB>>, <<OptA>>}

SubscriptionStatuses == {"active", "no_subscription", "other"}

(***************************************************************************)
(* Model Catalog Merger: modelMap / enhancedModelOptions.                  *)
(***************************************************************************)
IdsOf(list) == {list[i].id : i \in 1..Len(list)}

\* a key that is set again moves to the end
MapSetMovesToEnd(map, entry) ==
  Append(SelectSeq(map, LAMBDA e : e.id # entry.id), entry)

\* Map.prototype.set: replaces the value of an existing key in place, and
\* appends a new key
MapSet(map, entry) ==
  IF \E i \in 1..Len(map) : map[i].id = entry.id
    THEN [i \in 1..Len(map) |-> IF map[i].id = entry.id THEN entry ELSE map[i]]
    ELSE Append(map, entry)

MapGet(map, id) == map[CHOOSE i \in 1..Len(map) : map[i].id = id]

MapHas(map, id) == \E i \in 1..Len(map) : map[i].id = id

\* modelOptions.forEach(model => modelMap.set(model.id, {...model, isCustom: false}))
RECURSIVE AddStandard(_, _)
AddStandard(map, options) ==
  IF options = <<>> THEN map
  ELSE AddStandard(
         MapSet(map, [id |-> Head(options).id,
                      label |-> Head(options).label,
                      requiresSubscription |-> Head(options).requiresSubscription,
                      top |-> Head(options).top,
                      isCustom |-> FALSE]),
         Tail(options))

\* the custom entry does not touch an id that the map already holds
SetCustomKeepsBuiltin(map, model) ==
  IF MapHas(map, model.id) THEN map
  ELSE Append(map, [id |-> model.id, label |-> model.label,
                    requiresSubscription |-> FALSE, top |-> FALSE,
                    isCustom |-> TRUE])

\* the body of currentCustomModels.forEach
SetCustom(map, model) ==
  LET modelToSet == [id |-> model.id,
                     label |-> IF model.label # <<>> THEN model.label
                               ELSE formatModelName(model.id),
                     requiresSubscription |-> FALSE,
                     top |-> FALSE,
                     isCustom |-> TRUE]
  IN IF ~MapHas(map, model.id)
       THEN MapSet(map, modelToSet)
       ELSE MapSet(map, [MapGet(map, model.id) EXCEPT
                           !.label = modelToSet.label, !.isCustom = TRUE])

RECURSIVE AddCustom(_, _)
AddCustom(map, customs) ==
  IF customs = <<>> THEN map
  ELSE AddCustom(SetCustom(map, Head(customs)), Tail(customs))

enhancedModelOptions(options, customs) ==
  AddCustom(AddStandard(<<>>, options), customs)

\* the search predicate of filteredOptions and of both views
Matches(opt, query) ==
  \/ includes(toLowerCase(opt.label), toLowerCase(query))
  \/ includes(toLowerCase(opt.id), toLowerCase(query))

filteredOptionsOf(options, customs, query) ==
  LET Keep(opt) == Matches(opt, query)
  IN SelectSeq(enhancedModelOptions(options, customs), Keep)

\* the comparator of the "All Models" view
SortCompare(a, b) ==
  LET aRecommendedPaid == Recommended(a.id) /\ a.requiresSubscription
      bRecommendedPaid == Recommended(b.id) /\ b.requiresSubscription
      aRecommended == Recommended(a.id)
      bRecommended == Recommended(b.id)
  IN IF aRecommendedPaid /\ ~bRecommendedPaid THEN -1
     ELSE IF ~aRecommendedPaid /\ bRecommendedPaid THEN 1
     ELSE IF aRecommended /\ ~bRecommended THEN -1
     ELSE IF ~aRecommended /\ bRecommended THEN 1
     ELSE IF a.requiresSubscription /\ ~b.requiresSubscription THEN -1
     ELSE IF ~a.requiresSubscription /\ b.requiresSubscription THEN 1
     ELSE localeCompare(a.label, b.label)

\* Array.prototype.sort is stable: an entry goes behind every entry that
\* does not compare greater than it
RECURSIVE InsertSorted(_, _)
InsertSorted(sorted, x) ==
  IF sorted = <<>> THEN <<x>>
  ELSE IF SortCompare(Head(sorted), x) <= 0
    THEN <<Head(sorted)>> \o InsertSorted(Tail(sorted), x)
    ELSE <<x>> \o sorted

RECURSIVE SortFrom(_, _)
SortFrom(sorted, rest) ==
  IF rest = <<>> THEN sorted
  ELSE SortFrom(InsertSorted(sorted, Head(rest)), Tail(rest))

sortView(list) == SortFrom(<<>>, list)

\* getFreeModels()
getFreeModels(options) ==
  {options[i].id : i \in {j \in 1..Len(options) : ~options[j].requiresSubscription}}

\* premiumModels: the filtered entries whose id contains no free built-in id
premiumModelsOf(options, customs, query) ==
  LET Keep(m) == ~\E id \in getFreeModels(options) : includes(m.id, id)
  IN SelectSeq(filteredOptionsOf(options, customs, query), Keep)

isLocalMode == FALSE

(***************************************************************************)
(* Content Normalizer: processUnicodeContent.  A text is the sequence of   *)
(* its UTF-16 code units.                                                  *)
(***************************************************************************)
Backslash == 92
LetterU == 117
Digit0 == 48
Digit9 == 57
UpperA == 65
UpperF == 70
LowerA == 97
LowerF == 102

\* [0-9a-fA-F]
isHex(c) ==
  \/ c \in Digit0..Digit9
  \/ c \in UpperA..UpperF
  \/ c \in LowerA..LowerF

hexValue(c) ==
  IF c \in Digit0..Digit9 THEN c - Digit0
  ELSE IF c \in UpperA..UpperF THEN c - UpperA + 10
  ELSE c - LowerA + 10

\* parseInt(digits, 16)
RECURSIVE parseInt16(_)
parseInt16(digits) ==
  IF digits = <<>> THEN 0
  ELSE parseInt16(SubSeq(digits, 1, Len(digits) - 1)) * 16 + hexValue(digits[Len(digits)])

\* the characters after the backslash-u need not be hex digits
matchesAtAnyDigits(text, i, n) ==
  /\ i + 1 + n <= Len(text)
  /\ text[i] = Backslash
  /\ text[i + 1] = LetterU

\* the regular expression /\\u([0-9a-fA-F]{n})/ matches at position i
matchesAt(text, i, n) ==
  /\ i + 1 + n <= Len(text)
  /\ text[i] = Backslash
  /\ text[i + 1] = LetterU
  /\ \A k \in (i + 2)..(i + 1 + n) : isHex(text[k])

\* String.fromCharCode(parseInt(codePoint, 16))
bmpUnit(codePoint) == <<parseInt16(codePoint)>>

\* String.fromCharCode(highSurrogate, lowSurrogate)
surrogatePair(codePoint) ==
  <<parseInt16(SubSeq(codePoint, 1, 4)), parseInt16(SubSeq(codePoint, 5, 8))>>

\* content.replace(/\\u([0-9a-fA-F]{4})/g, ...): the matches are found from
\* left to right in the text as it was, a replacement is not scanned again
RECURSIVE replaceBmp(_, _)
replaceBmp(text, i) ==
  IF i > Len(text) THEN <<>>
  ELSE IF matchesAt(text, i, 4)
    THEN bmpUnit(SubSeq(text, i + 2, i + 5)) \o replaceBmp(text, i + 6)
    ELSE <<text[i]>> \o replaceBmp(text, i + 1)

\* bmpProcessed.replace(/\\u([0-9a-fA-F]{8})/g, ...)
RECURSIVE replaceSupplementary(_, _)
replaceSupplementary(text, i) ==
  IF i > Len(text) THEN <<>>
  ELSE IF matchesAt(text, i, 8)
    THEN surrogatePair(SubSeq(text, i + 2, i + 9)) \o replaceSupplementary(text, i + 10)
    ELSE <<text[i]>> \o replaceSupplementary(text, i + 1)

processUnicodeContent(text) ==
  IF text = <<>> THEN <<>>
  ELSE replaceSupplementary(replaceBmp(text, 1), 1)

\* the texts a caller may pass: up to MaxPieces pieces, each a backslash, a
\* "u", "005C" (the code of the backslash), "D83D", "D83DDE00", "00" or "x"
Pieces ==
  {<<Backslash>>, <<LetterU>>, <<48, 48, 53, 67>>, <<68, 56, 51, 68>>,
   <<68, 56, 51, 68, 68, 69, 48, 48>>, <<48, 48>>, <<120>>}

RECURSIVE Concat(_)
Concat(pieces) ==
  IF pieces = <<>> THEN <<>> ELSE Head(pieces) \o Concat(Tail(pieces))

Contents ==
  {Concat(ps) : ps \in UNION {[1..n -> Pieces] : n \in 0..MaxPieces}}

(***************************************************************************)
(* Markdown renderer: the img component.  A source is a sequence of        *)
(* characters, a number is a decimal fraction num / den or NaN.            *)
(***************************************************************************)
DefaultWidth == 500
DefaultHeight == 300

\* String.prototype.split(sep) for a separator of one character
RECURSIVE split(_, _)
split(text, sep) ==
  IF \A k \in 1..Len(text) : text[k] # sep THEN <<text>>
  ELSE LET i == CHOOSE k \in 1..Len(text) :
                  text[k] = sep /\ \A j \in 1..(k - 1) : text[j] # sep
       IN <<SubSeq(text, 1, i - 1)>> \o split(SubSeq(text, i + 1, Len(text)), sep)

DigitChars == <<"0", "1", "2", "3", "4", "5", "6", "7", "8", "9">>

isDigit(c) == \E d \in 1..Len(DigitChars) : DigitChars[d] = c

digitValue(c) == (CHOOSE d \in 1..Len(DigitChars) : DigitChars[d] = c) - 1

RECURSIVE decimalValue(_)
decimalValue(digits) ==
  IF digits = <<>> THEN 0
  ELSE decimalValue(SubSeq(digits, 1, Len(digits) - 1)) * 10 + digitValue(digits[Len(digits)])

RECURSIVE powerOfTen(_)
powerOfTen(n) == IF n = 0 THEN 1 ELSE 10 * powerOfTen(n - 1)

RECURSIVE fraction(_, _)
fraction(num, den) ==
  IF den > 1 /\ num % 10 = 0 THEN fraction(num \div 10, den \div 10)
  ELSE [nan |-> FALSE, num |-> num, den |-> den]

NaN == [nan |-> TRUE, num |-> 0, den |-> 1]

\* Number(text) for a text of digits, "." and other characters: the empty
\* text is 0, a decimal literal is its value, everything else is NaN
Number(text) ==
  LET parts == split(text, ".")
      allDigits(t) == \A k \in 1..Len(t) : isDigit(t[k])
  IN IF text = <<>> THEN fraction(0, 1)
     ELSE IF Len(parts) = 1 /\ allDigits(text) THEN fraction(decimalValue(text), 1)
     ELSE IF /\ Len(parts) = 2 /\ allDigits(parts[1]) /\ allDigits(parts[2])
             /\ Len(text) > 1
       THEN fraction(decimalValue(parts[1] \o parts[2]), powerOfTen(Len(parts[2])))
     ELSE NaN

isNaN(n) == n.nan

DataPrefix == <<"d", "a", "t", "a", ":">>
BlobPrefix == <<"b", "l", "o", "b", ":">>

\* the locals of the img component after its if (hash) { ... }
imgDimensions(src) ==
  LET srcParts == split(src, "#")
      hash == IF Len(srcParts) >= 2 THEN srcParts[2] ELSE <<>>
      texts == split(hash, "x")
      dimensions == [k \in 1..Len(texts) |-> Number(texts[k])]
  IN IF /\ hash # <<>>
        /\ Len(dimensions) = 2
        /\ ~isNaN(dimensions[1]) /\ ~isNaN(dimensions[2])
        /\ dimensions[1].num > 0 /\ dimensions[2].num > 0
       THEN [width |-> dimensions[1], height |-> dimensions[2], hasDimensions |-> TRUE]
       ELSE [width |-> fraction(DefaultWidth, 1), height |-> fraction(DefaultHeight, 1),
             hasDimensions |-> FALSE]

\* the element the img component returns: a plain <img> without dimensions
\* for data: and blob: URLs, the optimizing <Image> otherwise
imgElement(src) ==
  LET url == split(src, "#")[1]
  IN IF startsWith(url, DataPrefix) \/ startsWith(url, BlobPrefix) THEN "img"
     ELSE "Image"

\* the image sources of a document: a URL, alone or followed by "#" and up to
\* MaxFragment characters
FragmentChars == {"#", "x", "0", "3", ".", "a"}

Fragments == UNION {[1..n -> FragmentChars] : n \in 0..MaxFragment}

Sources ==
  LET urls == {<<"f">>, DataPrefix \o <<"f">>}
  IN urls \cup {url \o <<"#">> \o f : url \in urls, f \in Fragments}

(***************************************************************************)
(* State.                                                                  *)
(***************************************************************************)
VARIABLES
  modelOptions,            \* prop: the built-in list
  subscriptionStatus,      \* prop
  accessible,              \* prop: the ids canAccessModel answers true for
  selectedModel,           \* prop, owned by the parent and set by onModelChange
  paywallOpen, lockedModel, isOpen, searchQuery, highlightedIndex,
  customModels, isCustomModelDialogOpen, dialogInitialData, dialogMode,
  editingModelId,
  storedCustomModels,      \* localStorage: the persisted custom catalog
  storedModel,             \* localStorage[STORAGE_KEY_MODEL]
  storageWorks,            \* FALSE: every localStorage write throws (quota, privacy mode)
  fx,                      \* passive effects committed and not yet run
  flushFirst,              \* the pending effects run before the next event
  reopenTimers,            \* pending setTimeout(() => setIsOpen(true), 10)
  resetTimers,             \* pending setTimeout(() => setHighlightedIndex(-1), 0)
  ev                       \* the step taken last: handler, argument, outcome

\* the Markdown renderer: processUnicodeContent(content) in progress
VARIABLES
  content,                 \* the text handed to the renderer
  absent,                  \* the caller passed undefined or null for it
  stage,                   \* "idle", or the statement the call has reached
  processed,               \* the text after the statements run so far
  src,                     \* props.src of an image of the document
  image                    \* what the img component computed and returned

rendererVars == <<content, absent, stage, processed, src, image>>

props == <<modelOptions, subscriptionStatus, accessible, storageWorks>>
dialogVars == <<isCustomModelDialogOpen, dialogInitialData, dialogMode, editingModelId>>
paywallVars == <<paywallOpen, lockedModel>>
storageVars == <<storedCustomModels, storedModel>>
selectorVars ==
  <<modelOptions, subscriptionStatus, accessible, storageWorks, selectedModel,
    paywallOpen, lockedModel, isOpen, searchQuery, highlightedIndex,
    customModels, isCustomModelDialogOpen, dialogInitialData, dialogMode,
    editingModelId, storedCustomModels, storedModel, fx, flushFirst,
    reopenTimers, resetTimers, ev>>
vars == <<selectorVars, rendererVars>>

Null == <<"null">>

NoImage == [element |-> "none", width |-> NaN, height |-> NaN, hasDimensions |-> FALSE]

EmptyForm == [id |-> <<>>, label |-> <<>>, apiKey |-> <<>>, apiBase |-> <<>>]

\* what the user may type into the custom-model dialog
FormData ==
  {[id |-> <<" ">>, label |-> <<>>, apiKey |-> <<"k">>, apiBase |-> <<>>],
   [id |-> <<" ", "a">>, label |-> <<>>, apiKey |-> <<"k">>, apiBase |-> <<>>],
   [id |-> IdB, label |-> <<" ", "Z">>, apiKey |-> <<"k">>, apiBase |-> <<>>],
   [id |-> <<"c", " ">>, label |-> <<"A", "a", " ">>, apiKey |-> <<"k">>, apiBase |-> <<>>]}

\* what the user may type into the search field
Queries == {<<>>, <<"z">>}

\* the custom catalogs found in storage at mount
StoredAtMount ==
  {<<>>, <<[id |-> IdC, label |-> <<"A", "a">>, apiKey |-> <<"k">>, apiBase |-> <<>>]>>}

\* the derived values of a render
enhanced == enhancedModelOptions(modelOptions, customModels)
filteredOptions == filteredOptionsOf(modelOptions, customModels, searchQuery)
premiumModels == premiumModelsOf(modelOptions, customModels, searchQuery)
shouldDisplayAll ==
  (~isLocalMode /\ subscriptionStatus = "no_subscription") /\ Len(premiumModels) > 0

\* the "All Models" list as rendered
allModelsView == sortView(filteredOptions)

\* the "Available Models" list of the no-subscription view as rendered
freeModelsView ==
  LET Keep(m) == ~m.requiresSubscription /\ Matches(m, searchQuery)
  IN SelectSeq(filteredOptions, Keep)

canAccessModel(id) == id \in accessible

\* the answers of canAccessModel the parent may give: the free built-in
\* models always, the others always with an active subscription and never
\* without a subscription
AccessFor(options, status) ==
  IF status = "active" THEN {IdsOf(options)}
  ELSE IF status = "no_subscription" THEN {getFreeModels(options)}
  ELSE {getFreeModels(options), IdsOf(options)}

EffectNames == {"load", "save", "focus", "refresh"}

SelectorInit ==
  /\ modelOptions \in BuiltinLists
  /\ subscriptionStatus \in SubscriptionStatuses
  /\ accessible \in AccessFor(modelOptions, subscriptionStatus)
  /\ selectedModel = DEFAULT_FREE_MODEL_ID
  /\ paywallOpen = FALSE
  /\ lockedModel = Null
  /\ isOpen = FALSE
  /\ searchQuery = <<>>
  /\ highlightedIndex = -1
  /\ customModels = <<>>
  /\ isCustomModelDialogOpen = FALSE
  /\ dialogInitialData = EmptyForm
  /\ dialogMode = "add"
  /\ editingModelId = Null
  /\ storedCustomModels \in StoredAtMount
  /\ storedModel = DEFAULT_FREE_MODEL_ID
  /\ storageWorks \in BOOLEAN
  /\ fx = <<[run |-> EffectNames, isOpen |-> FALSE]>>
  /\ flushFirst = TRUE
  /\ reopenTimers = 0
  /\ resetTimers = 0
  /\ ev = [op |-> "mount", id |-> Null, res |-> "", writes |-> {}]

\* the selector is mounted; no text is being rendered
Init ==
  /\ SelectorInit
  /\ content = <<>>
  /\ absent = FALSE
  /\ stage = "idle"
  /\ processed = <<>>
  /\ src = <<>>
  /\ image = NoImage

(***************************************************************************)
(* Scheduling.  A handler or timer step is the handler together with the   *)
(* render and commit of its state updates.  The passive effects of a       *)
(* commit whose dependencies changed are queued in fx, with the isOpen of  *)
(* the render they close over, and run in a later RunEffects step.  React  *)
(* runs them after the commit, as a task of their own: events that change  *)
(* no effect dependency may come before a pending pass, and once an event  *)
(* has changed a dependency the pending passes run before anything else    *)
(* (flushFirst).                                                           *)
(***************************************************************************)
NewBatch(cmSet) ==
  [run |-> (IF isOpen' # isOpen THEN {"focus", "refresh"} ELSE {})
             \cup (IF cmSet THEN {"save", "refresh"} ELSE {}),
   isOpen |-> isOpen']

Queue(cmSet) ==
  fx' = IF NewBatch(cmSet).run = {} THEN fx ELSE Append(fx, NewBatch(cmSet))

UserCommit(cmSet) == Queue(cmSet) /\ flushFirst' = (NewBatch(cmSet).run # {})

TimerCommit == Queue(FALSE) /\ flushFirst' = FALSE

\* the user's next event comes after the effects that must run first and
\* after the 0 ms timers
UserCan == ~flushFirst /\ resetTimers = 0

\* the dropdown content is rendered and no modal dialog covers it
DropdownCan == UserCan /\ isOpen /\ ~isCustomModelDialogOpen /\ ~paywallOpen

Event(op, id, res, writes) ==
  ev' = [op |-> op, id |-> id, res |-> res, writes |-> writes]

(***************************************************************************)
(* Storage and the parent's onModelChange.                                 *)
(***************************************************************************)
\* saveCustomModels(models): a failing write is caught and changes nothing
saveCustomModels(models) ==
  storedCustomModels' = IF storageWorks THEN models ELSE storedCustomModels

\* localStorage.setItem(STORAGE_KEY_MODEL, id) inside try/catch
setItemModel(id) == storedModel' = IF storageWorks THEN id ELSE storedModel

\* the write is not guarded: a write that fails leaves the handler as an error
setItemEscapesOnFailure == ~storageWorks

\* try { localStorage.setItem(...) } catch (error) { console.warn(...) }:
\* the error of a failing write does not leave the handler
setItemEscapes == FALSE

\* the statements after the write run unless its error left the handler
runsOn(wrote) == ~(wrote /\ setItemEscapes)

\* the parent applies the selection and does not persist it
onModelChangeNoPersist(id) == selectedModel' = id /\ UNCHANGED storedModel

\* onModelChange(id): the parent applies the selection and persists it
onModelChange(id) == selectedModel' = id /\ setItemModel(id)

(***************************************************************************)
(* Selection.                                                              *)
(***************************************************************************)
SelectCustom(id, op) ==
  /\ onModelChange(id)
  /\ isOpen' = FALSE
  /\ UNCHANGED paywallVars
  /\ Event(op, id, "custom", {"model"})

SelectAllowed(id, op) ==
  /\ onModelChange(id)
  /\ isOpen' = FALSE
  /\ UNCHANGED paywallVars
  /\ Event(op, id, "allowed", {"model"})

SelectLocked(id, op) ==
  /\ lockedModel' = id
  /\ paywallOpen' = TRUE
  /\ UNCHANGED <<selectedModel, storedModel, isOpen>>
  /\ Event(op, id, "locked", {})

handleSelect(id, op) ==
  LET isCustomModel == MapHas(enhanced, id) /\ MapGet(enhanced, id).isCustom
  IN IF isCustomModel THEN SelectCustom(id, op)
     ELSE IF canAccessModel(id) THEN SelectAllowed(id, op)
     ELSE SelectLocked(id, op)

\* onClick of an entry of the "All Models" view
PickAll ==
  /\ DropdownCan /\ ~shouldDisplayAll
  /\ \E i \in 1..Len(allModelsView) :
       handleSelect(allModelsView[i].id, "pick")
  /\ UNCHANGED <<rendererVars, props, searchQuery, highlightedIndex, customModels, dialogVars,
                 storedCustomModels, reopenTimers, resetTimers>>
  /\ UserCommit(FALSE)

\* onClick of an entry of the no-subscription view: onModelChange(model.id)
PickFree ==
  /\ DropdownCan /\ shouldDisplayAll
  /\ \E i \in 1..Len(freeModelsView) :
       /\ onModelChange(freeModelsView[i].id)
       /\ Event("pickFree", freeModelsView[i].id, "direct", {"model"})
  /\ UNCHANGED <<rendererVars, props, paywallVars, isOpen, searchQuery, highlightedIndex,
                 customModels, dialogVars, storedCustomModels, reopenTimers,
                 resetTimers>>
  /\ UserCommit(FALSE)

\* onMouseEnter of renderModelOption: setHighlightedIndex(index)
MouseEnterAll ==
  /\ DropdownCan /\ ~shouldDisplayAll
  /\ \E i \in 1..Len(allModelsView) :
       /\ highlightedIndex' = i - 1
       /\ Event("mouseEnter", Null, "", {})
  /\ UNCHANGED <<rendererVars, props, selectedModel, paywallVars, isOpen, searchQuery,
                 customModels, dialogVars, storageVars, reopenTimers,
                 resetTimers>>
  /\ UserCommit(FALSE)

\* filteredOptions.indexOf(model) for a model of uniqueModels: the entries of
\* uniqueModels are copies ({...model, uniqueKey}), none is an element of
\* filteredOptions, and indexOf answers -1
indexOfCopy(list, model) == -1

\* onMouseEnter in the no-subscription view
MouseEnterFree ==
  /\ DropdownCan /\ shouldDisplayAll
  /\ \E i \in 1..Len(freeModelsView) :
       /\ highlightedIndex' = indexOfCopy(filteredOptions, freeModelsView[i])
       /\ Event("mouseEnterFree", Null, "", {})
  /\ UNCHANGED <<rendererVars, props, selectedModel, paywallVars, isOpen, searchQuery,
                 customModels, dialogVars, storageVars, reopenTimers,
                 resetTimers>>
  /\ UserCommit(FALSE)

(***************************************************************************)
(* The search field: onChange and handleSearchInputKeyDown.                *)
(***************************************************************************)
SearchChange ==
  /\ DropdownCan /\ ~shouldDisplayAll
  /\ \E q \in Queries \ {searchQuery} :
       /\ searchQuery' = q
       /\ Event("search", Null, "", {})
  /\ UNCHANGED <<rendererVars, props, selectedModel, paywallVars, isOpen, highlightedIndex,
                 customModels, dialogVars, storageVars, reopenTimers,
                 resetTimers>>
  /\ UserCommit(FALSE)

arrowDown(prev, n) == IF prev < n - 1 THEN prev + 1 ELSE 0

arrowUp(prev, n) == IF prev > 0 THEN prev - 1 ELSE n - 1

ArrowDown ==
  /\ DropdownCan /\ ~shouldDisplayAll
  /\ highlightedIndex' = arrowDown(highlightedIndex, Len(filteredOptions))
  /\ Event("arrowDown", Null, "", {})
  /\ UNCHANGED <<rendererVars, props, selectedModel, paywallVars, isOpen, searchQuery,
                 customModels, dialogVars, storageVars, reopenTimers,
                 resetTimers>>
  /\ UserCommit(FALSE)

ArrowUp ==
  /\ DropdownCan /\ ~shouldDisplayAll
  /\ highlightedIndex' = arrowUp(highlightedIndex, Len(filteredOptions))
  /\ Event("arrowUp", Null, "", {})
  /\ UNCHANGED <<rendererVars, props, selectedModel, paywallVars, isOpen, searchQuery,
                 customModels, dialogVars, storageVars, reopenTimers,
                 resetTimers>>
  /\ UserCommit(FALSE)

\* the entry Enter commits: filteredOptions[highlightedIndex]
enterOption(filtered, index) ==
  IF index + 1 \in 1..Len(filtered) THEN filtered[index + 1].id ELSE Null

Enter ==
  /\ DropdownCan /\ ~shouldDisplayAll
  /\ highlightedIndex >= 0
  /\ LET id == enterOption(filteredOptions, highlightedIndex)
     IN IF id # Null
          THEN handleSelect(id, "enter")
          ELSE /\ Event("enter", Null, "none", {})
               /\ UNCHANGED <<selectedModel, storedModel, isOpen, paywallVars>>
  /\ UNCHANGED <<rendererVars, props, searchQuery, highlightedIndex, customModels, dialogVars,
                 storedCustomModels, reopenTimers, resetTimers>>
  /\ UserCommit(FALSE)

(***************************************************************************)
(* The dropdown: <DropdownMenu open={isOpen} onOpenChange={setIsOpen}>.    *)
(***************************************************************************)
\* trigger activation: onOpenChange(true)
OpenDropdown ==
  /\ UserCan /\ ~isOpen /\ ~isCustomModelDialogOpen /\ ~paywallOpen
  /\ reopenTimers < MaxReopenTimers
  /\ isOpen' = TRUE
  /\ Event("open", Null, "", {})
  /\ UNCHANGED <<rendererVars, props, selectedModel, paywallVars, searchQuery, highlightedIndex,
                 customModels, dialogVars, storageVars, reopenTimers,
                 resetTimers>>
  /\ UserCommit(FALSE)

\* outside interaction or Escape: onOpenChange(false)
CloseDropdown ==
  /\ DropdownCan
  /\ isOpen' = FALSE
  /\ Event("close", Null, "", {})
  /\ UNCHANGED <<rendererVars, props, selectedModel, paywallVars, searchQuery, highlightedIndex,
                 customModels, dialogVars, storageVars, reopenTimers,
                 resetTimers>>
  /\ UserCommit(FALSE)

\* closeDialog of the paywall
ClosePaywall ==
  /\ UserCan /\ paywallOpen
  /\ paywallOpen' = FALSE
  /\ lockedModel' = Null
  /\ Event("closePaywall", Null, "", {})
  /\ UNCHANGED <<rendererVars, props, selectedModel, isOpen, searchQuery, highlightedIndex,
                 customModels, dialogVars, storageVars, reopenTimers,
                 resetTimers>>
  /\ UserCommit(FALSE)

(***************************************************************************)
(* The custom-model dialog.                                                *)
(***************************************************************************)
openAddCustomModelDialog ==
  /\ DropdownCan /\ ~shouldDisplayAll
  /\ dialogInitialData' = EmptyForm
  /\ dialogMode' = "add"
  /\ isCustomModelDialogOpen' = TRUE
  /\ isOpen' = FALSE
  /\ Event("openAdd", Null, "", {})
  /\ UNCHANGED <<rendererVars, props, selectedModel, paywallVars, searchQuery, highlightedIndex,
                 customModels, editingModelId, storageVars, reopenTimers,
                 resetTimers>>
  /\ UserCommit(FALSE)

\* the entries of the "All Models" view that show the edit and delete buttons
CustomShown ==
  {allModelsView[i].id : i \in {j \in 1..Len(allModelsView) : allModelsView[j].isCustom}}

openEditCustomModelDialog ==
  /\ DropdownCan /\ ~shouldDisplayAll
  /\ \E modelId \in CustomShown :
       /\ \E i \in 1..Len(customModels) : customModels[i].id = modelId
       /\ LET modelToEdit ==
                customModels[CHOOSE i \in 1..Len(customModels) :
                               /\ customModels[i].id = modelId
                               /\ \A j \in 1..(i - 1) : customModels[j].id # modelId]
          IN /\ dialogInitialData' = [id |-> modelToEdit.id,
                                      label |-> modelToEdit.label,
                                      apiKey |-> modelToEdit.apiKey,
                                      apiBase |-> modelToEdit.apiBase]
             /\ editingModelId' = modelToEdit.id
       /\ Event("openEdit", modelId, "", {})
  /\ dialogMode' = "edit"
  /\ isCustomModelDialogOpen' = TRUE
  /\ isOpen' = FALSE
  /\ UNCHANGED <<rendererVars, props, selectedModel, paywallVars, searchQuery, highlightedIndex,
                 customModels, storageVars, reopenTimers, resetTimers>>
  /\ UserCommit(FALSE)

\* the state updates of closeCustomModelDialog
closeCustomModelDialog ==
  /\ isCustomModelDialogOpen' = FALSE
  /\ dialogInitialData' = EmptyForm
  /\ editingModelId' = Null

\* onClose of the dialog
CloseCustomModelDialog ==
  /\ UserCan /\ isCustomModelDialogOpen
  /\ closeCustomModelDialog
  /\ Event("closeDialog", Null, "", {})
  /\ UNCHANGED <<rendererVars, props, selectedModel, paywallVars, isOpen, searchQuery,
                 highlightedIndex, customModels, dialogMode, storageVars,
                 reopenTimers, resetTimers>>
  /\ UserCommit(FALSE)

OpenRouterPrefix == <<"o", "p", "e", "n", "r", "o", "u", "t", "e", "r", "/">>

\* modelId.startsWith('openrouter/') ? modelId.replace('openrouter/', '') : modelId
displayIdOf(modelId) ==
  IF startsWith(modelId, OpenRouterPrefix)
    THEN SubSeq(modelId, Len(OpenRouterPrefix) + 1, Len(modelId))
    ELSE modelId

modelLabelOf(formData) ==
  IF trim(formData.label) # <<>> THEN trim(formData.label)
  ELSE formatModelName(displayIdOf(trim(formData.id)))

\* no id is taken for a duplicate
isDuplicateNever(customs, modelId, mode, editingId) == FALSE

\* the duplicate check looks at edits only
isDuplicateEditOnly(customs, modelId, mode, editingId) ==
  \E i \in 1..Len(customs) :
    customs[i].id = modelId /\ mode = "edit" /\ customs[i].id # editingId

\* customModels.some(m => m.id === modelId &&
\*                        (dialogMode === 'add' || m.id !== editingModelId))
isDuplicate(customs, modelId, mode, editingId) ==
  \E i \in 1..Len(customs) :
    customs[i].id = modelId /\ (mode = "add" \/ customs[i].id # editingId)

\* an add puts the new entry first
updatedModelsAddFirst(customs, newModel, mode, editingId) ==
  IF mode = "add" THEN <<newModel>> \o customs
  ELSE [i \in 1..Len(customs) |->
          IF customs[i].id = editingId THEN newModel ELSE customs[i]]

\* an edit replaces the first entry, whatever its id
updatedModelsFirstEntry(customs, newModel, mode, editingId) ==
  IF mode = "add" THEN Append(customs, newModel)
  ELSE [i \in 1..Len(customs) |-> IF i = 1 THEN newModel ELSE customs[i]]

\* dialogMode === 'add' ? [...customModels, newModel]
\*                      : customModels.map(m => m.id === editingModelId ? newModel : m)
updatedModelsOf(customs, newModel, mode, editingId) ==
  IF mode = "add" THEN Append(customs, newModel)
  ELSE [i \in 1..Len(customs) |->
          IF customs[i].id = editingId THEN newModel ELSE customs[i]]

\* every edit counts as an edit of the selected entry
editedIsSelectedAlways(selected, editingId) == TRUE

\* selectedModel === editingModelId
editedIsSelected(selected, editingId) == selected = editingId

\* the save is accepted: everything after the two early returns
SaveAccepted(formData) ==
  LET modelId == trim(formData.id)
      newModel == [id |-> modelId, label |-> modelLabelOf(formData),
                   apiKey |-> formData.apiKey, apiBase |-> formData.apiBase]
      updatedModels == updatedModelsOf(customModels, newModel, dialogMode, editingModelId)
  IN /\ dialogMode = "add" => Len(customModels) < MaxCustom
     /\ customModels' = updatedModels
     /\ saveCustomModels(updatedModels)
     /\ closeCustomModelDialog
     /\ IF dialogMode = "add"
          THEN /\ onModelChange(modelId)
               /\ setItemModel(modelId)
               /\ Event("save", modelId, "added", {"customModels", "model"})
          ELSE IF editedIsSelected(selectedModel, editingModelId)
            THEN /\ onModelChange(modelId)
                 /\ setItemModel(modelId)
                 /\ Event("save", modelId, "edited", {"customModels", "model"})
            ELSE /\ UNCHANGED <<selectedModel, storedModel>>
                 /\ Event("save", modelId, "edited", {"customModels"})
     /\ LET wrote == dialogMode = "add" \/ editedIsSelected(selectedModel, editingModelId)
        IN /\ isOpen' = (IF runsOn(wrote) THEN FALSE ELSE isOpen)
           /\ resetTimers' = (IF runsOn(wrote) THEN resetTimers + 1 ELSE resetTimers)
     /\ UNCHANGED <<rendererVars, props, paywallVars, searchQuery, highlightedIndex, dialogMode,
                    reopenTimers>>
     /\ UserCommit(TRUE)

\* no id is taken for empty
isEmptyIdNever(modelId) == FALSE

\* !modelId
isEmptyId(modelId) == modelId = <<>>

SaveRejected(formData, res) ==
  /\ Event("save", trim(formData.id), res, {})
  /\ UNCHANGED <<rendererVars, props, selectedModel, paywallVars, isOpen, searchQuery,
                 highlightedIndex, customModels, dialogVars, storageVars,
                 reopenTimers, resetTimers>>
  /\ UserCommit(FALSE)

\* onSave of the dialog
handleSaveCustomModel ==
  /\ UserCan /\ isCustomModelDialogOpen
  /\ \E formData \in FormData :
       LET modelId == trim(formData.id)
       IN IF isEmptyId(modelId) THEN SaveRejected(formData, "empty")
          ELSE IF isDuplicate(customModels, modelId, dialogMode, editingModelId)
            THEN SaveRejected(formData, "duplicate")
            ELSE SaveAccepted(formData)

\* the last entry goes, whatever the id
withoutLast(customs, modelId) == SubSeq(customs, 1, Len(customs) - 1)

\* customModels.filter(m => m.id !== modelId)
withoutModel(customs, modelId) ==
  LET Keep(m) == m.id # modelId IN SelectSeq(customs, Keep)

\* the fallback ignores the subscription
defaultModelIdAlwaysFree(status) == DEFAULT_FREE_MODEL_ID

defaultModelIdFor(status) ==
  IF status = "active" THEN DEFAULT_PREMIUM_MODEL_ID ELSE DEFAULT_FREE_MODEL_ID

\* the empty catalog is not written
saveAfterDeleteIfAny(updatedCustomModels) ==
  IF Len(updatedCustomModels) > 0 THEN saveCustomModels(updatedCustomModels)
  ELSE UNCHANGED storedCustomModels

\* saveCustomModels(updatedCustomModels) of handleDeleteCustomModel
saveAfterDelete(updatedCustomModels) == saveCustomModels(updatedCustomModels)

\* the delete button of a custom entry
handleDeleteCustomModel ==
  /\ DropdownCan /\ ~shouldDisplayAll
  /\ \E modelId \in CustomShown :
       LET updatedCustomModels == withoutModel(customModels, modelId)
       IN /\ customModels' = updatedCustomModels
          /\ saveAfterDelete(updatedCustomModels)
          /\ IF selectedModel = modelId
               THEN /\ onModelChange(defaultModelIdFor(subscriptionStatus))
                    /\ setItemModel(defaultModelIdFor(subscriptionStatus))
                    /\ Event("delete", modelId, "fallback", {"customModels", "model"})
               ELSE /\ UNCHANGED <<selectedModel, storedModel>>
                    /\ Event("delete", modelId, "kept", {"customModels"})
          /\ LET wrote == selectedModel = modelId
             IN /\ isOpen' = (IF runsOn(wrote) THEN FALSE ELSE isOpen)
                /\ resetTimers' = (IF runsOn(wrote) THEN resetTimers + 1
                                    ELSE resetTimers)
  /\ UNCHANGED <<rendererVars, props, paywallVars, searchQuery, highlightedIndex, dialogVars,
                 reopenTimers>>
  /\ UserCommit(TRUE)

(***************************************************************************)
(* Timers.  A timer callback runs once the effects queued before it ran.   *)
(***************************************************************************)
\* setTimeout(() => setIsOpen(true), 10)
ReopenTimer ==
  /\ reopenTimers > 0 /\ fx = <<>>
  /\ reopenTimers' = reopenTimers - 1
  /\ isOpen' = TRUE
  /\ Event("reopenTimer", Null, "", {})
  /\ UNCHANGED <<rendererVars, props, selectedModel, paywallVars, searchQuery, highlightedIndex,
                 customModels, dialogVars, storageVars, resetTimers>>
  /\ TimerCommit

\* setTimeout(() => setHighlightedIndex(-1), 0)
ResetTimer ==
  /\ resetTimers > 0 /\ fx = <<>>
  /\ resetTimers' = resetTimers - 1
  /\ highlightedIndex' = -1
  /\ Event("resetTimer", Null, "", {})
  /\ UNCHANGED <<rendererVars, props, selectedModel, paywallVars, isOpen, searchQuery,
                 customModels, dialogVars, storageVars, reopenTimers>>
  /\ TimerCommit

(***************************************************************************)
(* Passive effects, in the order the component declares them.              *)
(***************************************************************************)
\* getCustomModels(): the persisted catalog
getCustomModels == storedCustomModels

\* useEffect(..., []): setCustomModels(getCustomModels())
LoadEffect(batch) ==
  customModels' = IF "load" \in batch.run THEN getCustomModels ELSE customModels

\* the save effect writes the empty catalog as well
SaveEffectWritesAlways(batch) == "save" \in batch.run

\* useEffect(..., [customModels]): if (customModels.length > 0) saveCustomModels(customModels)
SaveEffectWrites(batch) == "save" \in batch.run /\ Len(customModels) > 0

SaveEffect(batch) ==
  IF SaveEffectWrites(batch) THEN saveCustomModels(customModels)
  ELSE UNCHANGED storedCustomModels

\* useEffect(..., [isOpen]): focus the search input, or reset query and highlight
FocusResets(batch) ==
  "focus" \in batch.run /\ ~(batch.isOpen /\ ~shouldDisplayAll)

\* useEffect(..., [customModels, modelOptions, isOpen]): the reset
RefreshResets(batch) == "refresh" \in batch.run

\* the effects leave the query and the highlight alone
EffectResetsNever(batch) == FALSE

\* setSearchQuery('') and setHighlightedIndex(-1) of the two effects
EffectResets(batch) == FocusResets(batch) \/ RefreshResets(batch)

\* useEffect(..., [customModels, modelOptions, isOpen]): the close-then-reopen
RefreshCycles(batch) == "refresh" \in batch.run /\ batch.isOpen

RunEffects ==
  /\ fx # <<>>
  /\ LET batch == Head(fx)
         cycles == RefreshCycles(batch)
         resets == EffectResets(batch)
         after == IF cycles THEN FALSE ELSE isOpen
         next == [run |-> (IF after # isOpen THEN {"focus", "refresh"} ELSE {})
                            \cup (IF "load" \in batch.run THEN {"save", "refresh"} ELSE {}),
                  isOpen |-> after]
     IN /\ LoadEffect(batch)
        /\ SaveEffect(batch)
        /\ Event("effects", Null, "",
                 IF SaveEffectWrites(batch) THEN {"customModels"} ELSE {})
        /\ searchQuery' = IF resets THEN <<>> ELSE searchQuery
        /\ highlightedIndex' = IF resets THEN -1 ELSE highlightedIndex
        /\ isOpen' = after
        /\ reopenTimers' = IF cycles THEN reopenTimers + 1 ELSE reopenTimers
        /\ fx' = IF next.run = {} THEN Tail(fx) ELSE Append(Tail(fx), next)
        /\ flushFirst' = (flushFirst /\ fx' # <<>>)
  /\ UNCHANGED <<rendererVars, props, selectedModel, paywallVars, dialogVars, storedModel,
                 resetTimers>>

Next ==
  \/ OpenDropdown
  \/ CloseDropdown
  \/ PickAll
  \/ PickFree
  \/ MouseEnterAll
  \/ MouseEnterFree
  \/ SearchChange
  \/ ArrowDown
  \/ ArrowUp
  \/ Enter
  \/ ClosePaywall
  \/ openAddCustomModelDialog
  \/ openEditCustomModelDialog
  \/ CloseCustomModelDialog
  \/ handleSaveCustomModel
  \/ handleDeleteCustomModel
  \/ ReopenTimer
  \/ ResetTimer
  \/ RunEffects

Spec == Init /\ [][Next]_vars

\* effects and timers that are due do run
FairSpec ==
  Spec /\ WF_vars(RunEffects) /\ WF_vars(ReopenTimer) /\ WF_vars(ResetTimer)

(***************************************************************************)
(* The Markdown renderer: processUnicodeContent, statement by statement,   *)
(* on every text of Contents, and the img component on every source of     *)
(* Sources; the selector stays as it was mounted.                          *)
(***************************************************************************)
RenderInit ==
  /\ SelectorInit
  /\ modelOptions = <<OptA>>
  /\ subscriptionStatus = "active"
  /\ storedCustomModels = <<>>
  /\ storageWorks
  /\ \/ /\ content \in Contents
        /\ absent \in {a \in BOOLEAN : a => content = <<>>}
        /\ src = <<>>
        /\ stage = "called"
     \/ /\ content = <<>>
        /\ absent = FALSE
        /\ src \in Sources
        /\ stage = "img"
  /\ processed = content
  /\ image = NoImage

\* if (!content) return ''
ReturnEmpty ==
  /\ stage = "called" /\ (absent \/ content = <<>>)
  /\ processed' = <<>>
  /\ stage' = "returned"
  /\ UNCHANGED <<content, absent, src, image, selectorVars>>

\* const bmpProcessed = content.replace(/\\u([0-9a-fA-F]{4})/g, ...)
BmpPass ==
  /\ stage = "called" /\ ~(absent \/ content = <<>>)
  /\ processed' = replaceBmp(content, 1)
  /\ stage' = "bmpProcessed"
  /\ UNCHANGED <<content, absent, src, image, selectorVars>>

\* return bmpProcessed.replace(/\\u([0-9a-fA-F]{8})/g, ...)
SupplementaryPass ==
  /\ stage = "bmpProcessed"
  /\ processed' = replaceSupplementary(processed, 1)
  /\ stage' = "returned"
  /\ UNCHANGED <<content, absent, src, image, selectorVars>>

\* components.img(props)
RenderImage ==
  /\ stage = "img"
  /\ image' = [element |-> imgElement(src),
               width |-> imgDimensions(src).width,
               height |-> imgDimensions(src).height,
               hasDimensions |-> imgDimensions(src).hasDimensions]
  /\ stage' = "imgReturned"
  /\ UNCHANGED <<content, absent, processed, src, selectorVars>>

RenderNext == ReturnEmpty \/ BmpPass \/ SupplementaryPass \/ RenderImage

RenderSpec == RenderInit /\ [][RenderNext]_vars

(***************************************************************************)
(* Properties.                                                             *)
(***************************************************************************)
IsCustomEntry(id) == MapHas(enhanced, id) /\ MapGet(enhanced, id).isCustom

PickOps == {"pick", "pickFree", "enter"}

SystemOps == {"effects", "reopenTimer", "resetTimer"}

\* C1: the merged catalog holds each id once, its ids are the built-in and the
\* custom ids together, an entry whose id is in the custom list carries the
\* custom label and isCustom = TRUE, and a built-in entry whose id is not in
\* the custom list is the built-in entry with isCustom = FALSE.
C1_MergedCatalog ==
  /\ \A i, j \in 1..Len(enhanced) : enhanced[i].id = enhanced[j].id => i = j
  /\ IdsOf(enhanced) = IdsOf(modelOptions) \cup IdsOf(customModels)
  /\ \A i \in 1..Len(customModels) :
       /\ MapGet(enhanced, customModels[i].id).label = customModels[i].label
       /\ MapGet(enhanced, customModels[i].id).isCustom
  /\ \A i \in 1..Len(modelOptions) :
       modelOptions[i].id \notin IdsOf(customModels) =>
         MapGet(enhanced, modelOptions[i].id) =
           [id |-> modelOptions[i].id,
            label |-> modelOptions[i].label,
            requiresSubscription |-> modelOptions[i].requiresSubscription,
            top |-> modelOptions[i].top,
            isCustom |-> FALSE]

\* a custom entry overrides a built-in one, another one is new, and a
\* built-in entry is left alone
C1_Witness ==
  /\ Len(modelOptions) = 2
  /\ IdB \in IdsOf(customModels)
  /\ IdC \in IdsOf(customModels)
  /\ Len(enhanced) = 3

\* C2: a save in add mode whose trimmed id is the id of a custom entry changes
\* neither the custom catalog nor the selection and writes nothing to storage.
C2_DuplicateAddRejected ==
  [][(/\ ev'.op = "save"
      /\ isCustomModelDialogOpen
      /\ dialogMode = "add"
      /\ ev'.id \in IdsOf(customModels))
     => (/\ customModels' = customModels
         /\ selectedModel' = selectedModel
         /\ UNCHANGED storageVars
         /\ ev'.writes = {})]_vars

\* a duplicate was rejected in add mode, for an id typed with a trailing blank
C2_Witness ==
  /\ ev.op = "save"
  /\ ev.res = "duplicate"
  /\ dialogMode = "add"
  /\ ev.id = IdC
  /\ IdC \in IdsOf(customModels)

\* C3: deleting the selected custom model selects the premium default with an
\* active subscription and the free default otherwise, and writes that id to
\* the persisted selection.
C3_DeleteSelectedFallsBack ==
  [][(ev'.op = "delete" /\ selectedModel = ev'.id)
     => (/\ selectedModel' = (IF subscriptionStatus = "active"
                                THEN DEFAULT_PREMIUM_MODEL_ID
                                ELSE DEFAULT_FREE_MODEL_ID)
         /\ "model" \in ev'.writes
         /\ storageWorks => storedModel' = selectedModel')]_vars

\* the selected custom model "c" was deleted under an active subscription
C3_Witness ==
  /\ ev.op = "delete"
  /\ ev.res = "fallback"
  /\ ev.id = IdC
  /\ subscriptionStatus = "active"
  /\ selectedModel = DEFAULT_PREMIUM_MODEL_ID
  /\ storedModel = DEFAULT_PREMIUM_MODEL_ID

\* C4: every pick of a descriptor that is not custom consults canAccessModel:
\* when it answers true the selection becomes the id and the dropdown closes,
\* when it answers false the selection is unchanged, the paywall opens for the
\* id and the pick leaves the dropdown as it is.
C4_PickConsultsAccess ==
  [][(ev'.op \in PickOps /\ ev'.res # "none" /\ ~IsCustomEntry(ev'.id))
     => IF canAccessModel(ev'.id)
          THEN selectedModel' = ev'.id /\ ~isOpen'
          ELSE /\ selectedModel' = selectedModel
               /\ paywallOpen' /\ lockedModel' = ev'.id
               /\ isOpen' = isOpen]_vars

\* C5: a pick of a descriptor marked custom selects it, closes the dropdown
\* and does not open the paywall, whatever canAccessModel and the
\* subscription status are.
C5_CustomPickSucceeds ==
  [][(ev'.op \in PickOps /\ ev'.res # "none" /\ IsCustomEntry(ev'.id))
     => (/\ selectedModel' = ev'.id
         /\ ~isOpen'
         /\ UNCHANGED paywallVars)]_vars

\* C6: with the custom catalog unchanged, no effect and no timer moves the
\* dropdown from open to closed.
C6_StaysOpen ==
  [][(isOpen /\ ~isOpen' /\ customModels' = customModels)
     => ev'.op \notin SystemOps]_vars

\* C7: the close-then-reopen cycle terminates: once the user has stopped, the
\* component comes to rest with no reopen timer and no effect pending.
C7_CycleTerminates ==
  <>[](ev.op \in SystemOps) => <>[](reopenTimers = 0 /\ fx = <<>>)

\* C8: every effect pass that follows a change of isOpen or of the custom
\* catalog resets the search query and the highlight, and when the dropdown
\* is closed and all effects have run the query is empty and no entry is
\* highlighted.
C8_ClosedIsReset ==
  /\ []((~isOpen /\ fx = <<>>) => (searchQuery = <<>> /\ highlightedIndex = -1))
  /\ [][ev'.op = "effects" => (searchQuery' = <<>> /\ highlightedIndex' = -1)]_vars

\* the effects have just run and left the dropdown closed, with a reopen
\* timer pending
C8_Witness ==
  /\ ev.op = "effects"
  /\ ~isOpen /\ fx = <<>>
  /\ reopenTimers > 0
  /\ customModels # <<>>

\* C9: ArrowDown and ArrowUp cycle over the n entries of the filtered view,
\* and the index they leave designates an entry of that view.
C9_ArrowsCycle ==
  [][(ev'.op \in {"arrowDown", "arrowUp"} /\ isOpen)
     => LET n == Len(filteredOptions)
        IN /\ highlightedIndex' \in 0..(n - 1)
           /\ (ev'.op = "arrowDown" /\ highlightedIndex \in 0..(n - 1))
                => highlightedIndex' = (highlightedIndex + 1) % n
           /\ (ev'.op = "arrowUp" /\ highlightedIndex \in 0..(n - 1))
                => highlightedIndex' = (highlightedIndex + n - 1) % n]_vars

\* C10: Enter commits the entry that is displayed as highlighted, the entry at
\* position highlightedIndex of the rendered "All Models" list.
C10_EnterCommitsHighlighted ==
  [][(ev'.op = "enter" /\ ev'.res # "none")
     => (/\ highlightedIndex + 1 \in 1..Len(allModelsView)
         /\ ev'.id = allModelsView[highlightedIndex + 1].id)]_vars

\* C11: a save in edit mode is rejected with no mutation when its trimmed id is
\* the id of a custom entry other than the edited one, and is accepted when the
\* id is the edited one; an accepted edit keeps the length of the catalog,
\* replaces the one entry whose id is the prior id at its position and leaves
\* every other entry as it was.
C11_EditUniqueness ==
  [][(/\ ev'.op = "save"
      /\ isCustomModelDialogOpen
      /\ dialogMode = "edit"
      /\ ev'.res # "empty")
     => LET id == ev'.id
            others == {i \in 1..Len(customModels) :
                         customModels[i].id # editingModelId}
            edited == {i \in 1..Len(customModels) :
                         customModels[i].id = editingModelId}
        IN /\ (\E i \in others : customModels[i].id = id)
                => (/\ ev'.res = "duplicate"
                    /\ customModels' = customModels
                    /\ selectedModel' = selectedModel
                    /\ UNCHANGED storageVars)
           /\ id = editingModelId => ev'.res = "edited"
           /\ ev'.res = "edited"
                => (/\ Len(customModels') = Len(customModels)
                    /\ Cardinality(edited) = 1
                    /\ \A i \in edited : customModels'[i].id = id
                    /\ \A i \in others : customModels'[i] = customModels[i])]_vars

\* the second entry of a catalog of two was edited and given a new id
C11_Witness ==
  /\ ev.op = "save"
  /\ ev.res = "edited"
  /\ dialogMode = "edit"
  /\ Len(customModels) = 2
  /\ customModels[2].id = ev.id
  /\ customModels[1].id # ev.id

\* C12: a save whose id is empty after trimming changes nothing: the custom
\* catalog, the selection, the persisted catalog and selection, the dialog
\* and the dropdown stay as they are, and nothing is written.
C12_EmptyIdNoOp ==
  [][(ev'.op = "save" /\ ev'.id = <<>>)
     => (/\ customModels' = customModels
         /\ selectedModel' = selectedModel
         /\ UNCHANGED storageVars
         /\ UNCHANGED dialogVars
         /\ UNCHANGED paywallVars
         /\ UNCHANGED <<isOpen, searchQuery, highlightedIndex>>
         /\ ev'.writes = {})]_vars

\* a blank id was saved from the open dialog, over a catalog with an entry
C12_Witness ==
  /\ ev.op = "save"
  /\ ev.res = "empty"
  /\ ev.id = <<>>
  /\ isCustomModelDialogOpen
  /\ customModels # <<>>

\* C13: every accepted add, edit and delete writes the custom catalog, and
\* when storage writes succeed the persisted catalog equals the in-memory
\* catalog after the operation, the empty catalog included.
C13_CatalogPersisted ==
  [][(/\ ev'.op \in {"save", "delete"}
      /\ ev'.res \in {"added", "edited", "fallback", "kept"})
     => (/\ "customModels" \in ev'.writes
         /\ storageWorks => storedCustomModels' = customModels')]_vars

\* the last custom entry was deleted and the persisted catalog is empty
C13_Witness ==
  /\ ev.op = "delete"
  /\ storageWorks
  /\ customModels = <<>>
  /\ storedCustomModels = <<>>

C15_WriteFailureKeepsState ==
  [][(/\ ev'.op \in {"save", "delete"}
      /\ ev'.res \in {"added", "edited", "fallback", "kept"}
      /\ ~storageWorks)
     => (/\ ev'.res = "added"
              => (/\ customModels' = Append(customModels, customModels'[Len(customModels')])
                  /\ customModels'[Len(customModels')].id = ev'.id
                  /\ selectedModel' = ev'.id)
         /\ ev'.res = "edited"
              => (/\ ev'.id \in IdsOf(customModels')
                  /\ selectedModel = editingModelId => selectedModel' = ev'.id)
         /\ ev'.op = "delete"
              => (/\ ev'.id \notin IdsOf(customModels')
                  /\ Len(customModels') = Len(customModels) - 1)
         /\ ev'.res = "fallback"
              => selectedModel' = defaultModelIdFor(subscriptionStatus)
         /\ ev'.op = "save" => ~isCustomModelDialogOpen'
         /\ ~isOpen'
         /\ resetTimers' = resetTimers + 1
         /\ UNCHANGED storageVars)]_vars

\* a custom model was added and selected while every storage write failed
C15_Witness ==
  /\ ev.op = "save"
  /\ ev.res = "added"
  /\ ~storageWorks
  /\ selectedModel = ev.id
  /\ storedModel # selectedModel
  /\ storedCustomModels # customModels

\* C16: every custom entry of the merged catalog has requiresSubscription =
\* FALSE, is listed in the free partition and is not in the premium partition,
\* whatever the subscription status is.
C16_CustomIsFree ==
  \A i \in 1..Len(enhanced) :
    enhanced[i].isCustom =>
      /\ ~enhanced[i].requiresSubscription
      /\ enhanced[i].id \in IdsOf(SelectSeq(enhanced, LAMBDA m : ~m.requiresSubscription))
      /\ enhanced[i].id \notin IdsOf(premiumModelsOf(modelOptions, customModels, <<>>))

\* C17: the merged catalog lists the built-in ids in the order of the built-in
\* list, an overridden built-in at its built-in position, and after them the
\* custom ids that match no built-in id, in the order of the custom catalog.
C17_MergeOrder ==
  LET news == SelectSeq(customModels, LAMBDA m : m.id \notin IdsOf(modelOptions))
  IN /\ Len(enhanced) = Len(modelOptions) + Len(news)
     /\ \A i \in 1..Len(modelOptions) : enhanced[i].id = modelOptions[i].id
     /\ \A k \in 1..Len(news) : enhanced[Len(modelOptions) + k].id = news[k].id

\* two built-ins, of which the first is overridden by the second custom
\* entry, and a new custom entry listed before the overriding one
C17_Witness ==
  /\ Len(modelOptions) = 2
  /\ Len(customModels) = 2
  /\ customModels[1].id = IdC
  /\ customModels[2].id = IdA
  /\ enhanced[1].isCustom
  /\ enhanced[3].id = IdC

Reverse(list) == [i \in 1..Len(list) |-> list[Len(list) + 1 - i]]

\* C18: the comparator of the "All Models" view is a strict total order on
\* the filtered catalog: it is antisymmetric and transitive, two distinct
\* entries never compare equal, and the sorted list is the same for the
\* filtered catalog in another order.
C18_ComparatorStrictTotal ==
  LET n == Len(filteredOptions)
      cmp(i, j) == SortCompare(filteredOptions[i], filteredOptions[j])
  IN /\ \A i, j \in 1..n : i # j => cmp(i, j) # 0
     /\ \A i, j \in 1..n : cmp(i, j) < 0 <=> cmp(j, i) > 0
     /\ \A i, j, k \in 1..n : (cmp(i, j) < 0 /\ cmp(j, k) < 0) => cmp(i, k) < 0
     /\ sortView(Reverse(filteredOptions)) = sortView(filteredOptions)

\* every backslash-u of the text is followed by 8 hex digits
OnlyLongEscapes(text) ==
  \A i \in 1..Len(text) :
    (i < Len(text) /\ text[i] = Backslash /\ text[i + 1] = LetterU)
      => matchesAt(text, i, 8)

\* C19: processUnicodeContent replaces every backslash-u followed by 8 hex
\* digits by the two code units of its first four and its last four digits:
\* for a text whose escapes are all of that form, the result is the text with
\* each of them replaced by that pair.
C19_SupplementaryDecoded ==
  (stage = "returned" /\ OnlyLongEscapes(content))
    => processed = replaceSupplementary(content, 1)

\* the 4-digit pass with each code unit it produces marked as produced, so
\* that it is no backslash, no "u" and no hex digit for a later match
RECURSIVE literalBmp(_, _)
literalBmp(text, i) ==
  IF i > Len(text) THEN <<>>
  ELSE IF matchesAt(text, i, 4)
    THEN <<parseInt16(SubSeq(text, i + 2, i + 5)) + 65536>> \o literalBmp(text, i + 6)
    ELSE <<text[i]>> \o literalBmp(text, i + 1)

unmarked(text) == [k \in 1..Len(text) |-> text[k] % 65536]

\* C20: no code unit produced by decoding an escape is part of an escape
\* that the same call decodes, and a result that contains no escape pattern
\* is returned unchanged when the function is applied to it.
C20_NoDoubleDecoding ==
  stage = "returned"
    => /\ processed = unmarked(replaceSupplementary(literalBmp(content, 1), 1))
       /\ (\A i \in 1..Len(processed) : ~matchesAt(processed, i, 4))
            => processUnicodeContent(processed) = processed

IsPositiveInteger(text) ==
  /\ text # <<>>
  /\ \A k \in 1..Len(text) : isDigit(text[k])
  /\ \E k \in 1..Len(text) : text[k] # "0"

\* C22: the img component uses explicit dimensions exactly when the part of
\* the source after its first "#" is <width>x<height> with two positive
\* integers, and these are then the dimensions; in every other case the
\* dimensions are 500 x 300.
C22_ImageDimensions ==
  stage = "imgReturned"
    => LET first == CHOOSE k \in 1..(Len(src) + 1) :
                      /\ k <= Len(src) => src[k] = "#"
                      /\ \A j \in 1..(k - 1) : src[j] # "#"
           fragment == SubSeq(src, first + 1, Len(src))
           wellFormed ==
             \E k \in 1..Len(fragment) :
               /\ fragment[k] = "x"
               /\ IsPositiveInteger(SubSeq(fragment, 1, k - 1))
               /\ IsPositiveInteger(SubSeq(fragment, k + 1, Len(fragment)))
           widthText == split(fragment, "x")[1]
           heightText == split(fragment, "x")[2]
       IN IF wellFormed
            THEN /\ image.hasDimensions
                 /\ image.width = fraction(decimalValue(widthText), 1)
                 /\ image.height = fraction(decimalValue(heightText), 1)
            ELSE /\ ~image.hasDimensions
                 /\ image.width = fraction(DefaultWidth, 1)
                 /\ image.height = fraction(DefaultHeight, 1)

\* C23: an accepted add appends the new entry at the end of the custom
\* catalog and leaves the existing entries as they were, makes the new id the
\* selection whatever canAccessModel answers for it, and leaves the dialog
\* and the dropdown closed.
C23_AcceptedAdd ==
  [][(ev'.op = "save" /\ ev'.res = "added")
       => /\ Len(customModels') = Len(customModels) + 1
          /\ SubSeq(customModels', 1, Len(customModels)) = customModels
          /\ customModels'[Len(customModels')].id = ev'.id
          /\ selectedModel' = ev'.id
          /\ ~isCustomModelDialogOpen'
          /\ ~isOpen']_vars

C23_Witness ==
  /\ ev.op = "save" /\ ev.res = "added"
  /\ Len(customModels) = 2
  /\ customModels[2].id = ev.id
  /\ selectedModel = ev.id
  /\ ~canAccessModel(ev.id)
  /\ ~isCustomModelDialogOpen /\ ~isOpen

\* C24: an accepted edit changes the selection only when the edited entry
\* was the selection, and the selection is then the entry's new id; an
\* accepted edit of another entry leaves the selection and the persisted
\* selection as they were.
C24_AcceptedEdit ==
  [][(ev'.op = "save" /\ ev'.res = "edited")
       => IF selectedModel = editingModelId
            THEN selectedModel' = ev'.id
            ELSE selectedModel' = selectedModel /\ storedModel' = storedModel]_vars

\* an edit of the selected entry
C24_Witness ==
  /\ ev.op = "save" /\ ev.res = "edited"
  /\ "model" \in ev.writes
  /\ selectedModel = ev.id
  /\ \E i \in 1..Len(customModels) : customModels[i].id = ev.id

\* the ids a delete may be asked for
DeleteIds == {IdA, IdB, IdC}

\* C25: delete removes exactly the custom entries with the given id and
\* keeps the others in their order; when the deleted id is not the selection
\* the selection and the persisted selection stay; deleting an id that is
\* not in the custom catalog leaves the catalog as it was.
C25_DeleteFrame ==
  [][/\ ev'.op = "delete"
          => LET kept == {i \in 1..Len(customModels) : customModels[i].id # ev'.id}
                 nth(k) == CHOOSE i \in kept : Cardinality({j \in kept : j <= i}) = k
             IN /\ Len(customModels') = Cardinality(kept)
                /\ \A k \in 1..Len(customModels') : customModels'[k] = customModels[nth(k)]
                /\ selectedModel # ev'.id
                     => selectedModel' = selectedModel /\ storedModel' = storedModel
     /\ \A id \in DeleteIds :
          (\A i \in 1..Len(customModels) : customModels[i].id # id)
            => withoutModel(customModels, id) = customModels]_vars

\* the first of two entries was deleted while the other one was selected
C25_Witness ==
  /\ ev.op = "delete" /\ ev.res = "kept"
  /\ Len(customModels) = 1
  /\ selectedModel = customModels[1].id
  /\ storedCustomModels = customModels

\* C26: the custom catalog loaded at mount has pairwise distinct ids, and
\* after every sequence of accepted and rejected adds, edits and deletes the
\* ids of the custom catalog are pairwise distinct and non-empty.
C26_DistinctIds ==
  /\ \A i, j \in 1..Len(customModels) :
       i # j => customModels[i].id # customModels[j].id
  /\ \A i \in 1..Len(customModels) : customModels[i].id # <<>>

\* two entries, the second one just edited
C26_Witness ==
  /\ ev.op = "save" /\ ev.res = "edited"
  /\ Len(customModels) = 2
  /\ customModels[2].id = ev.id
  /\ customModels[1].id # customModels[2].id

\* C27: while the custom-model dialog is open the dropdown is closed; no
\* pending reopen timer opens the dropdown under the open dialog.
C27_DialogExcludesDropdown == isCustomModelDialogOpen => ~isOpen

\* C28: in every reachable state the highlighted index h satisfies
\* -1 <= h < n for the number n of entries of the filtered view, also after
\* key presses on an empty view, after a search that narrows the view and
\* after mouse-enter events in either view.
C28_HighlightInRange ==
  /\ -1 <= highlightedIndex
  /\ highlightedIndex < Len(filteredOptions)

\* C29: a built-in descriptor that requires a subscription becomes the
\* selection only when canAccessModel answers true for its id, in every
\* sequence of adds, edits, deletes and picks, also when a custom entry with
\* the id of that descriptor is added.
C29_PaidNeedsAccess ==
  [][(/\ selectedModel' # selectedModel
      /\ \E i \in 1..Len(modelOptions) :
           /\ modelOptions[i].id = selectedModel'
           /\ modelOptions[i].requiresSubscription)
       => canAccessModel(selectedModel')]_vars

\* C30: mounting never overwrites a non-empty persisted catalog with an
\* empty one: the effects of the mount, the save effect with the initial
\* empty catalog among them, write nothing, and after them the in-memory
\* catalog is the persisted catalog; the persisted catalog loses entries
\* only through a delete.
C30_MountKeepsCatalog ==
  [][/\ ev.op = "mount"
          => /\ storedCustomModels' = storedCustomModels
             /\ customModels' = storedCustomModels'
     /\ Len(storedCustomModels') < Len(storedCustomModels) => ev'.op = "delete"]_vars

\* the mount found a catalog of one entry and its effects have run
C30_Witness ==
  /\ ev.op = "effects"
  /\ selectedModel = DEFAULT_FREE_MODEL_ID
  /\ Len(storedCustomModels) = 1
  /\ customModels = storedCustomModels
  /\ Len(fx) = 1 /\ Head(fx).run = {"save", "refresh"}

====
